---- MODULE Spec2Model ----
(***************************************************************************)
(* Roller Bets: the bet ledger (tracker page) and its derived statistics   *)
(* (insights page).                                                        *)
(*                                                                         *)
(* Number representation.  JavaScript numbers are modelled in fixed point  *)
(* with exact decimal arithmetic:                                          *)
(*   - money (stake, returnOverride, returns, profits): thousandths of a   *)
(*     pound, so 5.00 is 5000 and a value with 2 decimals is a multiple    *)
(*     of 10;                                                              *)
(*   - oddsDecimal: ten-thousandths, so 1.53 is 15300 and a value with 3   *)
(*     decimals is a multiple of 10;                                       *)
(*   - a date "yyyy-mm-dd" is the integer yyyymmdd (string comparison of   *)
(*     two well-formed dates is the comparison of these integers), and 0   *)
(*     stands for an absent or empty date;                                 *)
(*   - a ratio (win rate, ROI) is the pair <<numerator, denominator>>.     *)
(* An optional value is a sequence: <<>> when absent, <<v>> when present.  *)
(* A text (description, search box) is a sequence of one-character strings.*)
(* Binary floating-point representation error is not modelled.             *)
(***************************************************************************)
EXTENDS Integers, Sequences, FiniteSets, TLC

VARIABLES
    bets,         \* the live record collection (React state `bets`)
    lastDeleted,  \* the single soft-delete slot: <<>> or <<bet>>
    undoTimer,    \* undoTimer.current: 0 (null) or the handle of the last timer set
    timers,       \* handles of the timeouts that are pending in the browser
    isClient,     \* set by the mount effect
    store,        \* localStorage "rb.bets": "absent", "malformed" or <<array>>
    filter,       \* [sport, status, from, to, search]
    clock,        \* the wall clock read by new Date()
    nextId,       \* the next identifier uid() hands out
    state,        \* the app state (React state `state`)
    stateStore,   \* localStorage "rb.state": "absent", "malformed" or an object
    crashed       \* a render threw: the page shows nothing any more

vars == <<bets, lastDeleted, undoTimer, timers, isClient, store, filter, clock, nextId,
          state, stateStore, crashed>>

----------------------------------------------------------------------------
(* Optional values *)

Null == <<>>
Some(v) == <<v>>
IsNull(o) == o = <<>>
\* `o ?? d`
OrElse(o, d) == IF o = <<>> THEN d ELSE o[1]

Undefined == "undefined"

----------------------------------------------------------------------------
(* Numbers *)

Abs(x) == IF x < 0 THEN -x ELSE x

\* The integer nearest to x / q, a tie going away from zero: what
\* Number.prototype.toFixed does to the decimal value.
RoundDiv(x, q) ==
    IF x < 0 THEN -(((-x) * 2 + q) \div (2 * q))
    ELSE (x * 2 + q) \div (2 * q)

\* +(m).toFixed(2) of a money value m (thousandths): again in thousandths.
toFixed2(m) == 10 * RoundDiv(m, 10)

\* +(o).toFixed(3) of an odds value o (ten-thousandths).
toFixed3(o) == 10 * RoundDiv(o, 10)

\* Ratios n / d with d # 0, compared by cross multiplication.
Zero == <<0, 1>>
Ratio(n, d) == <<n, d>>
RatEq(a, b) == a[1] * b[2] = b[1] * a[2]

----------------------------------------------------------------------------
(* Return calculator *)

isSettled(s) == s = "Won" \/ s = "Lost"

\* stake (thousandths) * oddsDecimal (ten-thousandths) is in units of 10^-7;
\* a penny is 10^5 of them.
defaultReturn(bet) ==
    IF bet.status = "Won" THEN Some(10 * RoundDiv(bet.stake * bet.oddsDecimal, 100000))
    ELSE IF bet.status = "Lost" THEN Some(0)
    ELSE Null

\* effectiveReturn without the override branch.
effectiveReturnIgnoringOverride(bet) ==
    IF isSettled(bet.status) THEN defaultReturn(bet) ELSE Null

effectiveReturn(bet) ==
    IF isSettled(bet.status)
    THEN IF bet.returnOverride # Null
         THEN Some(toFixed2(bet.returnOverride[1]))
         ELSE defaultReturn(bet)
    ELSE Null

----------------------------------------------------------------------------
(* Sequences *)

Sum(s) ==
    LET f[k \in 0..Len(s)] == IF k = 0 THEN 0 ELSE f[k - 1] + s[k]
    IN f[Len(s)]

\* The array with the elements f[1], f[2], ...: each element is computed once.
Array(f) == <<>> \o f

\* A sort that puts an element in front of the elements it ties with.
SortOrderTiesReversed(key) ==
    LET ins[k \in 0..Len(key)] ==
            IF k = 0 THEN <<>>
            ELSE LET prev == ins[k - 1]
                     later == {i \in 1..Len(prev) : key[k] <= key[prev[i]]}
                     p == IF later = {} THEN Len(prev) + 1
                          ELSE CHOOSE i \in later : \A j \in later : i <= j
                 IN SubSeq(prev, 1, p - 1) \o <<k>> \o SubSeq(prev, p, Len(prev))
    IN ins[Len(key)]

\* Array.prototype.sort, a stable sort, for a comparator that orders the
\* elements by a number: key[i] is the number of s[i], and the result is in
\* ascending order of it (a comparator b.x - a.x is the key -x).  The result
\* is the order of the indices; SortBy applies it.
SortOrder(key) ==
    LET ins[k \in 0..Len(key)] ==
            IF k = 0 THEN <<>>
            ELSE LET prev == ins[k - 1]
                     later == {i \in 1..Len(prev) : key[k] < key[prev[i]]}
                     p == IF later = {} THEN Len(prev) + 1
                          ELSE CHOOSE i \in later : \A j \in later : i <= j
                 IN SubSeq(prev, 1, p - 1) \o <<k>> \o SubSeq(prev, p, Len(prev))
    IN ins[Len(key)]

SortBy(s, key) ==
    LET arr == Array(s)
        order == SortOrder(Array(key))
    IN Array([i \in 1..Len(arr) |-> arr[order[i]]])

----------------------------------------------------------------------------
(* Texts *)

UpperCase == <<"A","B","C","D","E","F","G","H","I","J","K","L","M",
               "N","O","P","Q","R","S","T","U","V","W","X","Y","Z">>
LowerCase == <<"a","b","c","d","e","f","g","h","i","j","k","l","m",
               "n","o","p","q","r","s","t","u","v","w","x","y","z">>

toLowerCase(t) ==
    [i \in 1..Len(t) |->
        IF \E k \in 1..26 : UpperCase[k] = t[i]
        THEN LowerCase[CHOOSE k \in 1..26 : UpperCase[k] = t[i]]
        ELSE t[i]]

\* String.prototype.trim: leading and trailing white space removed.
trim(t) ==
    LET ink == {i \in 1..Len(t) : t[i] # " "}
    IN IF ink = {} THEN <<>>
       ELSE SubSeq(t, CHOOSE i \in ink : \A j \in ink : i <= j,
                      CHOOSE i \in ink : \A j \in ink : i >= j)

\* String.prototype.includes
includes(text, q) ==
    \E i \in 0..(Len(text) - Len(q)) : SubSeq(text, i + 1, i + Len(q)) = q

\* The characters of the enum values, as the template literal spells them.
Chars(s) ==
    CASE s = "Football" -> <<"F","o","o","t","b","a","l","l">>
      [] s = "Cricket"  -> <<"C","r","i","c","k","e","t">>
      [] s = "Tennis"   -> <<"T","e","n","n","i","s">>
      [] s = "Other"    -> <<"O","t","h","e","r">>
      [] s = "Pending"  -> <<"P","e","n","d","i","n","g">>
      [] s = "Won"      -> <<"W","o","n">>
      [] s = "Lost"     -> <<"L","o","s","t">>
      [] s = "Goals"    -> <<"G","o","a","l","s">>
      [] s = "Corners"  -> <<"C","o","r","n","e","r","s">>
      [] s = "Result"   -> <<"R","e","s","u","l","t">>
      [] s = "Double Chance" -> <<"D","o","u","b","l","e"," ","C","h","a","n","c","e">>
      [] s = "Uncategorised" -> <<"U","n","c","a","t","e","g","o","r","i","s","e","d">>

\* replaceAll that leaves the text as it is.
replaceNothing(t, from, to) == t

\* String.prototype.replaceAll for a one-character pattern.
replaceAll(t, from, to) == [i \in 1..Len(t) |-> IF t[i] = from THEN to ELSE t[i]]

\* Array.prototype.join
join(parts, sep) ==
    LET f[k \in 0..Len(parts)] ==
           IF k = 0 THEN <<>>
           ELSE IF k = 1 THEN parts[1]
           ELSE LET prev == f[k - 1] IN prev \o sep \o parts[k]
    IN f[Len(parts)]

Digit == <<"0","1","2","3","4","5","6","7","8","9">>

\* The decimal numeral of a natural number.
RECURSIVE numeral(_)
numeral(n) == IF n < 10 THEN <<Digit[n + 1]>> ELSE numeral(n \div 10) \o <<Digit[(n % 10) + 1]>>

\* x.toFixed(2) as a text, for x in units of 1 / (100 * perPenny): the sign
\* of a negative x is kept when the digits round to zero ("-0.00").
toFixedText(x, perPenny) ==
    LET p == RoundDiv(Abs(x), perPenny)
    IN (IF x < 0 THEN <<"-">> ELSE <<>>)
       \o numeral(p \div 100) \o <<".", Digit[((p \div 10) % 10) + 1], Digit[(p % 10) + 1]>>

\* The text "yyyy-mm-dd" of a date, the empty text for an absent one.
dateText(d) ==
    IF d = 0 THEN <<>>
    ELSE LET y == d \div 10000
             m == (d \div 100) % 100
             dd == d % 100
         IN numeral(y) \o <<"-", Digit[(m \div 10) + 1], Digit[(m % 10) + 1],
                            "-", Digit[(dd \div 10) + 1], Digit[(dd % 10) + 1]>>

----------------------------------------------------------------------------
(* Filter engine *)

\* The filter callback with an exclusive upper date bound.
passesFilterExclusiveTo(b, f) ==
    IF f.sport # "All" /\ b.sport # f.sport THEN FALSE
    ELSE IF f.status # "All" /\ b.status # f.status THEN FALSE
    ELSE IF f.from # 0 /\ b.date < f.from THEN FALSE
    ELSE IF f.to # 0 /\ b.date >= f.to THEN FALSE
    ELSE IF trim(f.search) # <<>>
         THEN includes(toLowerCase(b.description \o <<" ">> \o Chars(b.sport)
                                   \o <<" ">> \o Chars(b.status)),
                       toLowerCase(f.search))
         ELSE TRUE

\* The ledger's filter callback (tracker page).
passesFilter(b, f) ==
    IF f.sport # "All" /\ b.sport # f.sport THEN FALSE
    ELSE IF f.status # "All" /\ b.status # f.status THEN FALSE
    ELSE IF f.from # 0 /\ b.date < f.from THEN FALSE
    ELSE IF f.to # 0 /\ b.date > f.to THEN FALSE
    ELSE IF trim(f.search) # <<>>
         THEN LET q == toLowerCase(f.search)
                  text == toLowerCase(b.description \o <<" ">> \o Chars(b.sport)
                                      \o <<" ">> \o Chars(b.status))
              IN includes(text, q)
         ELSE TRUE

\* bets.filter(...).sort((a, b) => b.date.localeCompare(a.date))
ledgerView(list, f) ==
    LET kept == SelectSeq(list, LAMBDA b : passesFilter(b, f))
    IN SortBy(kept, [i \in 1..Len(kept) |-> -kept[i].date])

filteredBets == ledgerView(bets, filter)

\* The insights page filters on sport and the date range only, and keeps
\* the collection order.
passesInsightsFilter(b, f) ==
    IF f.sport # "All" /\ b.sport # f.sport THEN FALSE
    ELSE IF f.from # 0 /\ b.date < f.from THEN FALSE
    ELSE IF f.to # 0 /\ b.date > f.to THEN FALSE
    ELSE TRUE

insightsView(list, f) == SelectSeq(list, LAMBDA b : passesInsightsFilter(b, f))

insightsBets == insightsView(bets, filter)

----------------------------------------------------------------------------
(* Aggregation engine *)

IsWon(b) == b.status = "Won"
IsPending(b) == b.status = "Pending"
IsSettledBet(b) == isSettled(b.status)

Stakes(list) == [i \in 1..Len(list) |-> list[i].stake]
Returns(list) == [i \in 1..Len(list) |-> OrElse(effectiveReturn(list[i]), 0)]

\* The middle of the list as it is given, without sorting it.
medianOfUnsorted(nums) ==
    IF Len(nums) = 0 THEN Zero
    ELSE LET mid == Len(nums) \div 2
         IN IF Len(nums) % 2 = 1 THEN Ratio(nums[mid + 1], 1)
            ELSE Ratio(nums[mid] + nums[mid + 1], 2)

\* median(nums): the value as a ratio, since the mean of the two middle
\* elements need not be a whole number of thousandths.
median(nums) ==
    IF Len(nums) = 0 THEN Zero
    ELSE LET arr == SortBy(nums, nums)
             mid == Len(arr) \div 2
         IN IF Len(arr) % 2 = 1 THEN Ratio(arr[mid + 1], 1)
            ELSE Ratio(arr[mid] + arr[mid + 1], 2)

\* The argument array after a call of median: [...nums] is a copy, so the
\* sort reorders the copy and leaves nums as it was.
afterMedian(nums) == nums

\* A clamp from below only.
clampAtZero(v) == IF v[1] * v[2] < 0 THEN Zero ELSE v

\* Math.max(0, Math.min(1, v))
clamp01(v) ==
    IF v[1] * v[2] < 0 THEN Zero
    ELSE IF Abs(v[1]) > Abs(v[2]) THEN Ratio(1, 1)
    ELSE v

\* Key metrics of the insights page, over its filtered records.
metrics(fb) ==
    LET settled == SelectSeq(fb, IsSettledBet)
        pending == SelectSeq(fb, IsPending)
        stakedAll == toFixed2(Sum(Stakes(fb)))
        stakedSettled == toFixed2(Sum(Stakes(settled)))
        returned == toFixed2(Sum(Returns(settled)))
        profit == toFixed2(returned - stakedSettled)
        wins == Len(SelectSeq(settled, IsWon))
        med == median(Stakes(fb))
    IN [ totalBets |-> Len(fb),
         settled |-> Len(settled),
         pending |-> Len(pending),
         stakedAll |-> stakedAll,
         stakedSettled |-> stakedSettled,
         returned |-> returned,
         profit |-> profit,
         hitRate |-> IF Len(settled) # 0 THEN Ratio(wins, Len(settled)) ELSE Zero,
         roi |-> IF stakedSettled > 0 THEN Ratio(profit, stakedSettled) ELSE Zero,
         avgOdds |-> IF Len(settled) # 0
                     THEN 100 * RoundDiv(Sum([i \in 1..Len(settled) |-> settled[i].oddsDecimal]),
                                         100 * Len(settled))
                     ELSE 0,
         avgStake |-> IF Len(fb) # 0 THEN 10 * RoundDiv(Sum(Stakes(fb)), 10 * Len(fb)) ELSE 0,
         medStake |-> 10 * RoundDiv(med[1], 10 * med[2]),
         profitPerBet |-> IF Len(settled) # 0 THEN 10 * RoundDiv(profit, 10 * Len(settled)) ELSE 0,
         pendingStake |-> toFixed2(Sum(Stakes(pending))),
         pendingPotentialReturn |->
             10 * RoundDiv(Sum([i \in 1..Len(pending) |->
                                   pending[i].stake * pending[i].oddsDecimal]), 100000) ]

\* Derived metrics of the tracker page, over the whole collection.
totals(list, targetProfit) ==
    LET settled == SelectSeq(list, IsSettledBet)
        totalStaked == toFixed2(Sum(Stakes(list)))
        totalReturned == toFixed2(Sum(Returns(settled)))
        profit == toFixed2(totalReturned - Sum(Stakes(settled)))
    IN [ totalStaked |-> totalStaked,
         totalReturned |-> totalReturned,
         profit |-> profit,
         winRate |-> IF Len(settled) # 0
                     THEN Ratio(Len(SelectSeq(settled, IsWon)), Len(settled))
                     ELSE Zero,
         progress |-> IF targetProfit > 0
                      THEN clamp01(Ratio(profit, targetProfit))
                      ELSE Zero ]

\* The running profit after each record of settled, rounded per point.
runningPoints(settled) ==
    LET run[k \in 0..Len(settled)] ==
            IF k = 0 THEN 0
            ELSE run[k - 1] + (OrElse(effectiveReturn(settled[k]), 0) - settled[k].stake)
    IN Array([k \in 1..Len(settled) |->
                 [date |-> settled[k].date, value |-> toFixed2(run[k])]])

\* The series over the settled records in the order of the collection.
cumulativeInCollectionOrder(list) ==
    LET points == runningPoints(SelectSeq(list, IsSettledBet))
    IN IF Len(points) # 0
       THEN <<[date |-> points[1].date, value |-> 0]>> \o points
       ELSE points

\* Cumulative profit series, by date (tracker page).
cumulative(list) ==
    LET kept == SelectSeq(list, IsSettledBet)
        settled == SortBy(kept, Array([i \in 1..Len(kept) |-> kept[i].date]))
        points == runningPoints(settled)
    IN IF Len(points) # 0
       THEN <<[date |-> points[1].date, value |-> 0]>> \o points
       ELSE points

\* The keys of a JavaScript Map filled by m.set(key[k], ...) for k = 1, 2, ...:
\* the distinct keys in the order of their first insertion.
MapKeys(key) ==
    LET m[k \in 0..Len(key)] ==
            IF k = 0 THEN <<>>
            ELSE LET prev == m[k - 1]
                 IN IF \E i \in 1..Len(prev) : prev[i] = key[k]
                    THEN prev
                    ELSE Append(prev, key[k])
    IN m[Len(key)]

\* The records of list that were folded into the entry of key k, in order.
MapGroup(list, key, k) ==
    LET g[n \in 0..Len(list)] ==
            IF n = 0 THEN <<>>
            ELSE LET prev == g[n - 1]
                 IN IF key[n] = k THEN Append(prev, list[n]) ELSE prev
    IN g[Len(list)]

ZeroStat == [staked |-> 0, returned |-> 0, profit |-> 0, settled |-> 0, wins |-> 0]

\* The body of the settled branch shared by the grouping loops.
AddSettled(cur, b) ==
    LET ret == OrElse(effectiveReturn(b), 0)
    IN [ staked |-> cur.staked + b.stake,
         returned |-> cur.returned + ret,
         profit |-> cur.profit + (ret - b.stake),
         settled |-> cur.settled + 1,
         wins |-> IF b.status = "Won" THEN cur.wins + 1 ELSE cur.wins ]

\* The loop body without its isSettled test.
AddWhateverStatus(cur, b) == AddSettled(cur, b)

AddIfSettled(cur, b) == IF isSettled(b.status) THEN AddSettled(cur, b) ELSE cur

\* The entry of one key after the loop: `cur = m.get(key) ?? zero`, the loop
\* body, `m.set(key, cur)`, for each record of the key in turn.
StatOf(group) ==
    LET f[k \in 0..Len(group)] ==
            IF k = 0 THEN ZeroStat ELSE AddIfSettled(f[k - 1], group[k])
    IN f[Len(group)]

\* The rows of a Map of Stat entries before they are sorted.
StatRows(list, key) ==
    LET keys == MapKeys(key)
    IN Array([i \in 1..Len(keys) |->
           LET v == StatOf(MapGroup(list, key, keys[i]))
           IN [ key |-> keys[i],
                staked |-> toFixed2(v.staked),
                returned |-> toFixed2(v.returned),
                profit |-> toFixed2(v.profit),
                winRate |-> IF v.settled > 0 THEN Ratio(v.wins, v.settled) ELSE Zero ]])

\* A key that keeps the year only.
MonthKeyYearOnly(b) == b.date \div 10000

\* b.date.slice(0, 7): the "yyyy-mm" prefix.
MonthKey(b) == b.date \div 100

monthly(fb) ==
    LET settled == SelectSeq(fb, IsSettledBet)
        m == StatRows(settled, Array([i \in 1..Len(settled) |-> MonthKey(settled[i])]))
        rows == [i \in 1..Len(m) |->
                    [ month |-> m[i].key, staked |-> m[i].staked,
                      returned |-> m[i].returned, profit |-> m[i].profit ]]
    IN SortBy(rows, [i \in 1..Len(rows) |-> rows[i].month])

SportKey(b) == b.sport

bySport(fb) ==
    LET m == StatRows(fb, Array([i \in 1..Len(fb) |-> SportKey(fb[i])]))
        rows == [i \in 1..Len(m) |->
                    [ sport |-> m[i].key, staked |-> m[i].staked,
                      returned |-> m[i].returned, profit |-> m[i].profit,
                      winRate |-> m[i].winRate ]]
    IN SortBy(rows, [i \in 1..Len(rows) |-> -rows[i].profit])

IsFootball(b) == b.sport = "Football"

\* The key without the substitution for an absent category.
CategoryKeyAsStored(b) == b.category

\* b.category ?? 'Uncategorised'
CategoryKey(b) == IF b.category = Undefined THEN "Uncategorised" ELSE b.category

byCategory(fb) ==
    LET football == SelectSeq(fb, IsFootball)
        m == StatRows(football, Array([i \in 1..Len(football) |-> CategoryKey(football[i])]))
        rows == [i \in 1..Len(m) |->
                    [ category |-> m[i].key, staked |-> m[i].staked,
                      returned |-> m[i].returned, profit |-> m[i].profit,
                      winRate |-> m[i].winRate ]]
    IN SortBy(rows, [i \in 1..Len(rows) |-> -rows[i].profit])

\* The tracker page's football breakdown, over the ledger view.
ZeroCatStat == [bets |-> 0, settled |-> 0, stakedSettled |-> 0, returned |-> 0, wins |-> 0]

AddCatStat(cur, b) ==
    IF isSettled(b.status)
    THEN [ bets |-> cur.bets + 1,
           settled |-> cur.settled + 1,
           stakedSettled |-> cur.stakedSettled + b.stake,
           returned |-> cur.returned + OrElse(effectiveReturn(b), 0),
           wins |-> IF b.status = "Won" THEN cur.wins + 1 ELSE cur.wins ]
    ELSE [cur EXCEPT !.bets = cur.bets + 1]

CatStatOf(group) ==
    LET f[k \in 0..Len(group)] ==
            IF k = 0 THEN ZeroCatStat ELSE AddCatStat(f[k - 1], group[k])
    IN f[Len(group)]

footballCategoryStats(fb) ==
    LET football == SelectSeq(fb, IsFootball)
        key == Array([i \in 1..Len(football) |-> CategoryKey(football[i])])
        keys == MapKeys(key)
        rows == [i \in 1..Len(keys) |->
                    LET v == CatStatOf(MapGroup(football, key, keys[i]))
                        profit == toFixed2(v.returned - v.stakedSettled)
                    IN [ category |-> keys[i],
                         bets |-> v.bets,
                         settled |-> v.settled,
                         staked |-> toFixed2(v.stakedSettled),
                         returned |-> toFixed2(v.returned),
                         profit |-> profit,
                         roi |-> IF v.stakedSettled > 0 THEN Ratio(profit, v.stakedSettled) ELSE Zero,
                         winRate |-> IF v.settled > 0 THEN Ratio(v.wins, v.settled) ELSE Zero ]]
    IN SortBy(rows, [i \in 1..Len(rows) |-> -rows[i].profit])

\* max of the last band
Infinity == 2147483647

\* The band table, min and max in ten-thousandths.
bands ==
    << [label |-> "1.01 to 1.49", min |-> 10100, max |-> 14900],
       [label |-> "1.50 to 1.99", min |-> 15000, max |-> 19900],
       [label |-> "2.00 to 2.99", min |-> 20000, max |-> 29900],
       [label |-> "3.00 to 4.99", min |-> 30000, max |-> 49900],
       [label |-> "5.00 or more", min |-> 50000, max |-> Infinity] >>

\* One row of the calibration table.  avgOdds is the ratio of ten-thousandths,
\* implied its inverse as a plain ratio.
bandRow(band, settled) ==
    LET inBand == SelectSeq(settled,
                      LAMBDA b : b.oddsDecimal >= band.min /\ b.oddsDecimal <= band.max)
        n == Len(inBand)
        wins == Len(SelectSeq(inBand, IsWon))
        sumOdds == Sum([i \in 1..n |-> inBand[i].oddsDecimal])
        staked == Sum(Stakes(inBand))
        returned == Sum(Returns(inBand))
        profit == toFixed2(returned - staked)
    IN IF n = 0
       THEN [ band |-> band.label, bets |-> 0, wins |-> 0, avgOdds |-> Zero,
              implied |-> Zero, winRate |-> Zero, roi |-> Zero, profit |-> 0 ]
       ELSE [ band |-> band.label, bets |-> n, wins |-> wins,
              avgOdds |-> Ratio(sumOdds, n),
              implied |-> Ratio(n * 10000, sumOdds),
              winRate |-> Ratio(wins, n),
              roi |-> IF staked > 0 THEN Ratio(profit, staked) ELSE Zero,
              profit |-> profit ]

\* The calibration table over all records, Pending included.
oddsBandsOverAll(fb) == [k \in 1..Len(bands) |-> bandRow(bands[k], fb)]

oddsBands(fb) ==
    LET settled == SelectSeq(fb, IsSettledBet)
    IN [k \in 1..Len(bands) |-> bandRow(bands[k], settled)]

names == <<"Sun", "Mon", "Tue", "Wed", "Thu", "Fri", "Sat">>

\* A day number that counts from Monday.
getDayFromMonday(y, m, d) ==
    LET t == <<0, 3, 2, 5, 0, 3, 5, 1, 4, 6, 2, 4>>
        yy == IF m < 3 THEN y - 1 ELSE y
    IN (yy + yy \div 4 - yy \div 100 + yy \div 400 + t[m] + d + 6) % 7

\* new Date(y, m - 1, d).getDay() of a calendar date: 0 is Sunday.
getDay(y, m, d) ==
    LET t == <<0, 3, 2, 5, 0, 3, 5, 1, 4, 6, 2, 4>>
        yy == IF m < 3 THEN y - 1 ELSE y
    IN (yy + yy \div 4 - yy \div 100 + yy \div 400 + t[m] + d) % 7

dayName(isoDate) ==
    names[getDay(isoDate \div 10000, (isoDate \div 100) % 100, isoDate % 100) + 1]

DayKey(b) == dayName(b.date)

byWeekday(fb) ==
    LET settled == SelectSeq(fb, IsSettledBet)
        key == Array([i \in 1..Len(settled) |-> DayKey(settled[i])])
        rows == Array([k \in 1..Len(names) |->
                    LET v == StatOf(MapGroup(settled, key, names[k]))
                    IN [ day |-> names[k],
                         staked |-> toFixed2(v.staked),
                         returned |-> toFixed2(v.returned),
                         profit |-> toFixed2(v.profit),
                         winRate |-> IF v.settled > 0 THEN Ratio(v.wins, v.settled) ELSE Zero,
                         roi |-> IF v.staked > 0 THEN Ratio(v.profit, v.staked) ELSE Zero ]])
    IN SortBy(rows, [i \in 1..Len(rows) |-> -rows[i].profit])

\* The CSV export of the insights page: the text of the downloaded file for
\* the records of list (filteredBets in one copy of the page, bets in the
\* other).
header ==
    << <<"d","a","t","e">>,
       <<"d","e","s","c","r","i","p","t","i","o","n">>,
       <<"s","p","o","r","t">>,
       <<"c","a","t","e","g","o","r","y">>,
       <<"s","t","a","k","e">>,
       <<"o","d","d","s","D","e","c","i","m","a","l">>,
       <<"s","t","a","t","u","s">>,
       <<"r","e","t","u","r","n">>,
       <<"p","r","o","f","i","t">> >>

csvRow(b) ==
    LET ret == effectiveReturn(b)
        profit == IF isSettled(b.status) THEN toFixedText(OrElse(ret, 0) - b.stake, 10) ELSE <<>>
    IN join(<< dateText(b.date),
               replaceAll(b.description, ",", " "),
               Chars(b.sport),
               IF b.sport = "Football"
               THEN Chars(IF b.category = Undefined THEN "Uncategorised" ELSE b.category)
               ELSE <<>>,
               toFixedText(b.stake, 10),
               toFixedText(b.oddsDecimal, 100),
               Chars(b.status),
               IF ret = Null THEN <<>> ELSE toFixedText(ret[1], 10),
               profit >>, <<",">>)

exportCSV(list) ==
    join(<<join(header, <<",">>)>> \o Array([i \in 1..Len(list) |-> csvRow(list[i])]), <<"\n">>)

----------------------------------------------------------------------------
(* Arrays and aliasing *)

\* An array in a chain of calls that starts from an array it was given: arr
\* is the array the chain has reached, own says that it is an array of its
\* own and no longer the given one, and given is the given array as the
\* chain has left it.
given(list) == [arr |-> list, own |-> FALSE, given |-> list]

\* A call that hands back the array it was applied to.
aliased(c, result) == [arr |-> result, own |-> c.own, given |-> c.given]

\* filter, slice, map, [...x] and Array.from return a new array.
fresh(c, result) == [arr |-> result, own |-> TRUE, given |-> c.given]

\* sort reorders the array it is applied to and returns that same array.
sortedInPlace(c, result) ==
    [arr |-> result, own |-> c.own, given |-> IF c.own THEN c.given ELSE result]

\* The collection after bets.filter(...).sort(...) of the ledger view.
afterLedgerView(list, f) ==
    LET kept == fresh(given(list), SelectSeq(list, LAMBDA b : passesFilter(b, f)))
    IN sortedInPlace(kept, SortBy(kept.arr, [i \in 1..Len(kept.arr) |-> -kept.arr[i].date])).given

\* The collection after bets.filter(...) of the insights page.
afterInsightsView(list, f) == fresh(given(list), insightsView(list, f)).given

\* The collection after totals: bets.filter(...) and reduce.
afterTotals(list) == fresh(given(list), SelectSeq(list, IsSettledBet)).given

\* The collection after bets.filter(...).slice().sort(...) of cumulative.
afterCumulative(list) ==
    LET kept == fresh(given(list), SelectSeq(list, IsSettledBet))
        copy == fresh(kept, kept.arr)
    IN sortedInPlace(copy, SortBy(copy.arr, [i \in 1..Len(copy.arr) |-> copy.arr[i].date])).given

\* The record set after a grouped table was computed from it: the records
\* are read in a loop, and Array.from(map.entries()).map(...).sort(...)
\* sorts the array of rows.
afterTable(fb, rows) == sortedInPlace(fresh(given(fb), rows), rows).given

\* The record set after oddsBands: settled is a filter result, the rows are
\* pushed on a new array.
afterOddsBands(fb) == fresh(given(fb), SelectSeq(fb, IsSettledBet)).given

\* The record set after exportCSV: the rows are a map result.
afterExport(list) == fresh(given(list), [i \in 1..Len(list) |-> csvRow(list[i])]).given

----------------------------------------------------------------------------
(* The tracker page: text inputs *)

\* The value of a numeric input box: "" (empty), a decimal numeral (value in
\* the unit of its field) or a text that Number() turns into NaN.
Empty == [kind |-> "empty", value |-> 0]
Num(v) == [kind |-> "number", value |-> v]
Garbage == [kind |-> "garbage", value |-> 0]

parseNum(n, fallback) ==
    IF n.kind = "number" THEN n.value
    ELSE IF n.kind = "empty" THEN 0
    ELSE fallback

\* form.returnOverride !== undefined && form.returnOverride !== ""
\*     ? +parseNum(form.returnOverride).toFixed(2) : undefined
parseOverride(o) ==
    IF o # Null /\ o[1] # Empty THEN Some(toFixed2(parseNum(o[1], 0))) ELSE Null

\* String(x) of a stored number, as beginEdit puts it in the edit boxes.
String(x) == Num(x)

----------------------------------------------------------------------------
(* The tracker page: state and handlers *)

Bet(id, date, description, sport, category, stake, oddsDecimal, status, returnOverride, settledAt, createdAt, updatedAt) ==
    [ id |-> id, date |-> date, description |-> description, sport |-> sport,
      category |-> category, stake |-> stake, oddsDecimal |-> oddsDecimal,
      status |-> status, returnOverride |-> returnOverride,
      settledAt |-> settledAt, createdAt |-> createdAt, updatedAt |-> updatedAt ]

DefaultFilter == [sport |-> "All", status |-> "All", from |-> 0, to |-> 0, search |-> <<>>]

\* A persist effect that writes an empty array.
stringifyNothing(list) == [kind |-> "array", value |-> <<>>]

\* localStorage.setItem("rb.bets", JSON.stringify(bets)): absent fields are
\* dropped by stringify and are absent again after JSON.parse.
stringify(list) == [kind |-> "array", value |-> list]

\* The two examples seeded on first run.
seedBets(id, today, now) ==
    << Bet(id, today, <<"C","h","e","l","s","e","a"," ","B","T","T","S">>,
           "Football", Undefined, 5000, 15300, "Lost", Some(0), Some(now), now, now),
       Bet(id + 1, today,
           <<"A","T","P"," ","m","a","t","c","h"," ","w","i","n","n","e","r">>,
           "Tennis", Undefined, 10000, 21000, "Pending", Null, Null, now, now) >>

\* The mount effect, and the persist effect of the render that follows it.
loadBets(raw, current, id, today, now) ==
    IF raw.kind = "array" THEN raw.value
    ELSE IF raw.kind = "malformed" THEN current
    ELSE seedBets(id, today, now)

\* useState<AppState>({ targetProfit: 100, startingBankroll: 5, theme: "dark" })
DefaultState == [targetProfit |-> 100000, startingBankroll |-> 5000, theme |-> "dark"]

\* localStorage.setItem("rb.state", JSON.stringify(state))
stringifyState(st) == [kind |-> "object", value |-> st]

\* if (rawState) { try { setState(JSON.parse(rawState)) } catch {} }
loadState(raw, current) == IF raw.kind = "object" THEN raw.value ELSE current

\* The render after the mount effect throws (bets.filter on a value that is
\* no array) when "rb.bets" holds the JSON text null.
rendersNothing(raw) == raw.kind = "null"

\* useState<AppState>({ targetProfit: 100, theme: 'dark' }) of the insights page
insightsDefaultState == [targetProfit |-> 100000, theme |-> "dark"]

\* The mount effect of the insights page: one try block around both keys, so
\* that a JSON.parse that throws on "rb.state" leaves "rb.bets" unread; the
\* render that follows throws when the collection was set to null.
insightsLoad(rawState, rawBets) ==
    LET thrown == rawState.kind = "malformed"
    IN [ state |-> IF rawState.kind = "object" THEN rawState.value ELSE insightsDefaultState,
         bets |-> IF ~thrown /\ rawBets.kind = "array" THEN rawBets.value ELSE <<>>,
         crashed |-> ~thrown /\ rendersNothing(rawBets) ]

addDisabled(form) ==
    \/ trim(form.description) = <<>>
    \/ parseNum(form.stake, 0) <= 0
    \/ parseNum(form.oddsDecimal, 0) <= 10000

newBet(form, id, now) ==
    Bet(id, form.date, trim(form.description), form.sport,
        IF form.sport = "Football" THEN form.category ELSE Undefined,
        toFixed2(parseNum(form.stake, 0)),
        toFixed3(parseNum(form.oddsDecimal, 0)),
        form.status,
        parseOverride(form.returnOverride),
        IF isSettled(form.status) THEN Some(now) ELSE Null,
        now, now)

\* editVals as beginEdit sets them.
beginEdit(bet) ==
    [ stake |-> String(bet.stake), oddsDecimal |-> String(bet.oddsDecimal),
      status |-> bet.status, category |-> bet.category,
      returnOverride |-> IF bet.returnOverride # Null
                         THEN Some(String(bet.returnOverride[1])) ELSE Null ]

\* An edit that leaves settledAt as it was.
editedBetKeepingSettledAt(b, id, editVals, now) ==
    IF b.id # id THEN b
    ELSE [ b EXCEPT
             !.stake = toFixed2(parseNum(editVals.stake, 0)),
             !.oddsDecimal = toFixed3(parseNum(editVals.oddsDecimal, 0)),
             !.status = editVals.status,
             !.category = IF b.sport = "Football" THEN editVals.category ELSE Undefined,
             !.returnOverride = parseOverride(editVals.returnOverride),
             !.updatedAt = now ]

\* The callback saveEdit maps over the collection.
editedBet(b, id, editVals, now) ==
    IF b.id # id THEN b
    ELSE [ b EXCEPT
             !.stake = toFixed2(parseNum(editVals.stake, 0)),
             !.oddsDecimal = toFixed3(parseNum(editVals.oddsDecimal, 0)),
             !.status = editVals.status,
             !.category = IF b.sport = "Football" THEN editVals.category ELSE Undefined,
             !.returnOverride = parseOverride(editVals.returnOverride),
             !.settledAt = IF isSettled(b.status) \/ isSettled(editVals.status)
                           THEN Some(now) ELSE Null,
             !.updatedAt = now ]

\* An update that moves the edited record to the front.
mapEditedToFront(list, id, editVals, now) ==
    SelectSeq([i \in 1..Len(list) |-> editedBet(list[i], id, editVals, now)], LAMBDA b : b.id = id)
    \o SelectSeq(list, LAMBDA b : b.id # id)

\* list => list.map(b => ...): the update saveEdit hands to setBets.
mapEdited(list, id, editVals, now) ==
    [i \in 1..Len(list) |-> editedBet(list[i], id, editVals, now)]

\* bets.find(b => b.id === id) || null
findBet(list, id) ==
    LET at == {i \in 1..Len(list) : list[i].id = id}
    IN IF at = {} THEN Null
       ELSE Some(list[CHOOSE i \in at : \A j \in at : i <= j])

\* list.filter(b => b.id !== id)
withoutBet(list, id) == SelectSeq(list, LAMBDA b : b.id # id)

\* A restore at the end of the collection.
restoredAtEnd(slot, list) == list \o <<slot[1]>>

\* A restore that puts back a copy without its settlement time.
restoredWithoutSettledAt(slot, list) == <<[slot[1] EXCEPT !.settledAt = Null]>> \o list

\* [lastDeleted, ...list]
restored(slot, list) == <<slot[1]>> \o list

\* The handle window.setTimeout returns: one no pending timeout has.
newHandle(pending) == CHOOSE h \in 1..(Cardinality(pending) + 1) : h \notin pending

\* A clearTimeout that cancels nothing.
clearedNothing(pending, handle, client) == pending

\* window.clearTimeout(undoTimer.current), guarded as in the handlers.
cleared(pending, handle, client) ==
    IF handle # 0 /\ client THEN pending \ {handle} ELSE pending

----------------------------------------------------------------------------
(* Bounds and input sets *)

MaxTime == 2    \* the last instant of the clock: each Add and Save reads a later one

FormDates == {20240131}

\* What the user may have typed in the add form when pressing Add.
Forms ==
    { [ date |-> 20240131, description |-> <<"a", " ">>, sport |-> "Football",
        category |-> "Result", stake |-> Num(5000), oddsDecimal |-> Num(15000),
        status |-> "Pending", returnOverride |-> Null ],
      [ date |-> 20240131, description |-> <<" ", "b">>, sport |-> "Tennis",
        category |-> "Result", stake |-> Num(4), oddsDecimal |-> Num(10004),
        status |-> "Won", returnOverride |-> Some(Num(2505)) ],
      [ date |-> 20240131, description |-> <<"c">>, sport |-> "Football",
        category |-> Undefined, stake |-> Num(2000), oddsDecimal |-> Num(15350),
        status |-> "Lost", returnOverride |-> Some(Empty) ],
      [ date |-> 20240131, description |-> <<" ">>, sport |-> "Football",
        category |-> "Result", stake |-> Num(5000), oddsDecimal |-> Num(15000),
        status |-> "Pending", returnOverride |-> Null ],
      [ date |-> 20240131, description |-> <<"d">>, sport |-> "Football",
        category |-> "Result", stake |-> Empty, oddsDecimal |-> Num(15000),
        status |-> "Pending", returnOverride |-> Null ],
      [ date |-> 20240131, description |-> <<"e">>, sport |-> "Football",
        category |-> "Result", stake |-> Garbage, oddsDecimal |-> Num(15000),
        status |-> "Won", returnOverride |-> Null ],
      [ date |-> 20240131, description |-> <<"f">>, sport |-> "Football",
        category |-> "Result", stake |-> Num(5000), oddsDecimal |-> Num(10000),
        status |-> "Won", returnOverride |-> Null ] }

\* What the edit boxes may hold when Save is pressed on the row of b: the
\* values beginEdit put there, with some of them retyped.
EditValues(b) ==
    LET e == beginEdit(b)
    IN {e}
       \cup {[e EXCEPT !.status = st] : st \in {"Pending", "Won", "Lost"}}
       \cup { [e EXCEPT !.stake = Num(-5004), !.oddsDecimal = Empty],
              [e EXCEPT !.status = "Won", !.category = "Goals",
                        !.returnOverride = Some(Num(1000))] }

\* What localStorage "rb.bets" may hold when the page is opened: nothing, a
\* text that is no JSON, the JSON text null, or an array of records.
InitialStores ==
    { [kind |-> "absent", value |-> <<>>],
      [kind |-> "malformed", value |-> <<>>],
      [kind |-> "null", value |-> <<>>],
      stringify(<< Bet(1, 20240131, <<"s">>, "Football", "Goals", 1000, 20000,
                       "Pending", Null, Null, 0, 0) >>) }

\* What localStorage "rb.state" may hold when the page is opened.
InitialStateStores ==
    { [kind |-> "absent", value |-> DefaultState],
      [kind |-> "malformed", value |-> DefaultState],
      stringifyState([targetProfit |-> 1000, startingBankroll |-> 0, theme |-> "light"]) }

IdsOf(list) == {list[i].id : i \in 1..Len(list)}

MaxOf(S) == IF S = {} THEN 0 ELSE CHOOSE x \in S : \A y \in S : y <= x

----------------------------------------------------------------------------
(* The tracker page: actions *)

Init ==
    /\ bets = <<>>
    /\ lastDeleted = Null
    /\ undoTimer = 0
    /\ timers = {}
    /\ isClient = FALSE
    /\ store \in InitialStores
    /\ filter = DefaultFilter
    /\ clock = 0
    /\ nextId = MaxOf(IdsOf(store.value)) + 1
    /\ state = DefaultState
    /\ stateStore \in InitialStateStores
    /\ crashed = FALSE

\* The effect run once after the first render, with the render it causes
\* and, when that render succeeds, its two persist effects.
Mount ==
    /\ ~isClient
    /\ ~crashed
    /\ IF rendersNothing(store)
       THEN /\ crashed' = TRUE
            /\ UNCHANGED <<bets, isClient, store, nextId, state, stateStore>>
       ELSE /\ isClient' = TRUE
            /\ \E today \in FormDates :
                  bets' = loadBets(store, bets, nextId, today, clock)
            /\ nextId' = IF store.kind = "absent" THEN nextId + 2 ELSE nextId
            /\ store' = stringify(bets')
            /\ state' = loadState(stateStore, state)
            /\ stateStore' = stringifyState(state')
            /\ UNCHANGED crashed
    /\ UNCHANGED <<lastDeleted, undoTimer, timers, filter, clock>>

\* The Add button.
addBet(form) ==
    /\ isClient
    /\ clock < MaxTime
    /\ IF addDisabled(form)
       THEN UNCHANGED <<bets, store, nextId, clock>>
       ELSE /\ clock' = clock + 1
            /\ bets' = <<newBet(form, nextId, clock')>> \o bets
            /\ store' = stringify(bets')
            /\ nextId' = nextId + 1
    /\ UNCHANGED <<lastDeleted, undoTimer, timers, isClient, filter, state, stateStore, crashed>>

\* The Save button of a row in edit mode.
saveEdit(id, editVals) ==
    /\ isClient
    /\ clock < MaxTime
    /\ clock' = clock + 1
    /\ bets' = mapEdited(bets, id, editVals, clock')
    /\ store' = stringify(bets')
    /\ UNCHANGED <<lastDeleted, undoTimer, timers, isClient, filter, nextId, state, stateStore, crashed>>

\* A delete that keeps the record already held in the slot.
deleteBetKeepingSlot(id) ==
    /\ isClient
    /\ bets' = withoutBet(bets, id)
    /\ lastDeleted' = IF lastDeleted # Null THEN lastDeleted ELSE findBet(bets, id)
    /\ undoTimer' = newHandle(cleared(timers, undoTimer, isClient))
    /\ timers' = cleared(timers, undoTimer, isClient) \cup {undoTimer'}
    /\ store' = stringify(bets')
    /\ UNCHANGED <<isClient, filter, clock, nextId, state, stateStore, crashed>>

\* The Delete button of a row.
deleteBet(id) ==
    /\ isClient
    /\ bets' = withoutBet(bets, id)
    /\ lastDeleted' = findBet(bets, id)
    /\ LET left == cleared(timers, undoTimer, isClient)
       IN IF isClient
          THEN /\ undoTimer' = newHandle(left)
               /\ timers' = left \cup {undoTimer'}
          ELSE /\ undoTimer' = undoTimer
               /\ timers' = left
    /\ store' = stringify(bets')
    /\ UNCHANGED <<isClient, filter, clock, nextId, state, stateStore, crashed>>

\* An undo that restores the held record and keeps it in the slot.
undoDeleteKeepingSlot ==
    /\ isClient
    /\ IF lastDeleted = Null
       THEN UNCHANGED <<bets, lastDeleted, timers, store>>
       ELSE /\ bets' = restored(lastDeleted, bets)
            /\ lastDeleted' = lastDeleted
            /\ timers' = cleared(timers, undoTimer, isClient)
            /\ store' = stringify(bets')
    /\ UNCHANGED <<undoTimer, isClient, filter, clock, nextId, state, stateStore, crashed>>

\* The Undo button.
undoDelete ==
    /\ isClient
    /\ IF lastDeleted = Null
       THEN UNCHANGED <<bets, lastDeleted, timers, store>>
       ELSE /\ bets' = restored(lastDeleted, bets)
            /\ lastDeleted' = Null
            /\ timers' = cleared(timers, undoTimer, isClient)
            /\ store' = stringify(bets')
    /\ UNCHANGED <<undoTimer, isClient, filter, clock, nextId, state, stateStore, crashed>>

\* A timeout whose callback leaves the slot as it is.
timerFiresKeepingSlot(h) ==
    /\ h \in timers
    /\ timers' = timers \ {h}
    /\ UNCHANGED <<bets, lastDeleted, undoTimer, isClient, store, filter, clock, nextId, state, stateStore, crashed>>

\* The callback of a pending timeout: () => setLastDeleted(null).
timerFires(h) ==
    /\ h \in timers
    /\ timers' = timers \ {h}
    /\ lastDeleted' = Null
    /\ UNCHANGED <<bets, undoTimer, isClient, store, filter, clock, nextId, state, stateStore, crashed>>

AddBet == \E form \in Forms : addBet(form)
SaveEdit == \E i \in 1..Len(bets) : \E e \in EditValues(bets[i]) : saveEdit(bets[i].id, e)
DeleteBet == \E i \in 1..Len(bets) : deleteBet(bets[i].id)
UndoDelete == undoDelete
TimerFires == \E h \in timers : timerFires(h)

Next ==
    \/ Mount
    \/ AddBet
    \/ SaveEdit
    \/ DeleteBet
    \/ UndoDelete
    \/ TimerFires

Spec == Init /\ [][Next]_vars

\* The browser runs every pending timeout.
FairSpec == Spec /\ WF_vars(TimerFires)

----------------------------------------------------------------------------
(* The derived views: record sets and filter changes *)

MaxViewBets == 2    \* records in a collection the views are computed over

\* Records as Add and Save can leave them in the collection (an edit stores
\* any stake and odds typed), and as the Bet type allows for returnOverride.
ViewPool ==
    { Bet(0, 20240131, <<"T","w","o">>, "Football", "Goals", 5000, 15300,
          "Won", Null, Some(0), 0, 0),
      Bet(0, 20240201, <<"x">>, "Football", Undefined, 1000, 14950,
          "Lost", Null, Some(0), 0, 0),
      Bet(0, 20240201, <<"y", ",", "y">>, "Tennis", Undefined, 2000, 21000,
          "Pending", Null, Null, 0, 0),
      Bet(0, 20240131, <<"z">>, "Tennis", Undefined, 500, 15350,
          "Won", Null, Some(0), 0, 0),
      Bet(0, 20240315, <<"u">>, "Football", "Corners", 2000, 30000,
          "Won", Some(2505), Some(0), 0, 0),
      Bet(0, 20240315, <<"v">>, "Cricket", Undefined, 1000, 50000,
          "Pending", Some(1000), Null, 0, 0),
      Bet(0, 20240201, <<"w">>, "Football", "Goals", 1000, 50000,
          "Lost", Some(500), Some(0), 0, 0),
      Bet(0, 20240131, <<"p">>, "Tennis", Undefined, -1000, 20000,
          "Lost", Null, Some(0), 0, 0),
      Bet(0, 20240201, <<"q">>, "Cricket", Undefined, 0, 10000,
          "Won", Null, Some(0), 0, 0),
      Bet(0, 20240315, <<"r">>, "Tennis", Undefined, 1000, 12500,
          "Won", Null, Some(0), 0, 0) }

FilterSports == {"All", "Football", "Tennis"}
FilterStatuses == {"All", "Won"}
FilterDates == {0, 20240201}
SearchTexts == { <<>>, <<" ", " ">>, <<"W", "O">> }

InitView ==
    /\ \E n \in 0..MaxViewBets : \E pick \in [1..n -> ViewPool] :
          bets = [i \in 1..n |-> [pick[i] EXCEPT !.id = i]]
    /\ lastDeleted = Null
    /\ undoTimer = 0
    /\ timers = {}
    /\ isClient = TRUE
    /\ store = stringify(bets)
    /\ filter = DefaultFilter
    /\ clock = 0
    /\ nextId = Len(bets) + 1
    /\ state = DefaultState
    /\ stateStore = stringifyState(state)
    /\ crashed = FALSE

\* setFilter(f => ({ ...f, sport })), and the same for the other controls.
setFilter(next) ==
    /\ isClient
    /\ filter' = next
    /\ UNCHANGED <<bets, lastDeleted, undoTimer, timers, isClient, store, clock, nextId, state, stateStore, crashed>>

SetSport == \E sp \in FilterSports : setFilter([filter EXCEPT !.sport = sp])
SetStatus == \E st \in FilterStatuses : setFilter([filter EXCEPT !.status = st])
SetFrom == \E d \in FilterDates : setFilter([filter EXCEPT !.from = d])
SetTo == \E d \in FilterDates : setFilter([filter EXCEPT !.to = d])
SetSearch == \E q \in SearchTexts : setFilter([filter EXCEPT !.search = q])
\* The "Clear filters" button.
ClearFilters == setFilter([sport |-> "All", status |-> "All", from |-> 0, to |-> 0, search |-> <<>>])

NextView ==
    \/ SetSport
    \/ SetStatus
    \/ SetFrom
    \/ SetTo
    \/ SetSearch
    \/ ClearFilters

SpecView == InitView /\ [][NextView]_vars

----------------------------------------------------------------------------
(* Lists of stakes: longer collections of plain records *)

MaxStakes == 4    \* records in a collection of this part

StakeValues == {5000, 10000, 20000}

\* A Lost record with the given stake; the sports alternate.
stakeRecord(i, stake) ==
    Bet(i, 20240131, <<"s">>, IF i % 2 = 1 THEN "Tennis" ELSE "Football", Undefined, stake, 20000, "Lost", Null, Null, 0, 0)

InitStakes ==
    /\ \E n \in 0..MaxStakes : \E pick \in [1..n -> StakeValues] :
          bets = [i \in 1..n |-> stakeRecord(i, pick[i])]
    /\ lastDeleted = Null
    /\ undoTimer = 0
    /\ timers = {}
    /\ isClient = TRUE
    /\ store = stringify(bets)
    /\ filter = DefaultFilter
    /\ clock = 0
    /\ nextId = Len(bets) + 1
    /\ state = DefaultState
    /\ stateStore = stringifyState(state)
    /\ crashed = FALSE

NextStakes ==
    \/ SetSport
    \/ ClearFilters

SpecStakes == InitStakes /\ [][NextStakes]_vars

----------------------------------------------------------------------------
(* The goal card: record sets, targets and filter changes *)

\* The totals the tracker page shows, progress towards the goal included.
trackerTotals == totals(bets, state.targetProfit)

\* Targets that "rb.state" may have held when the page was opened.
StoredTargets == {-5000, 0, 100000}

\* What the target box may hold after a key stroke.
TargetInputs == {Empty, Garbage, Num(-5000), Num(2000)}

InitGoal ==
    /\ \E n \in 0..MaxViewBets : \E pick \in [1..n -> ViewPool] :
          bets = [i \in 1..n |-> [pick[i] EXCEPT !.id = i]]
    /\ lastDeleted = Null
    /\ undoTimer = 0
    /\ timers = {}
    /\ isClient = TRUE
    /\ store = stringify(bets)
    /\ filter = DefaultFilter
    /\ clock = 0
    /\ nextId = Len(bets) + 1
    /\ \E t \in StoredTargets : state = [DefaultState EXCEPT !.targetProfit = t]
    /\ stateStore = stringifyState(state)
    /\ crashed = FALSE

\* onChange of the target box:
\* setState(s => ({ ...s, targetProfit: Math.max(1, parseNum(value, 100)) }))
setTargetProfit(input) ==
    /\ isClient
    /\ LET typed == parseNum(input, 100000)
       IN state' = [state EXCEPT !.targetProfit = IF typed > 1000 THEN typed ELSE 1000]
    /\ stateStore' = stringifyState(state')
    /\ UNCHANGED <<bets, lastDeleted, undoTimer, timers, isClient, store, filter, clock, nextId, crashed>>

SetTargetProfit == \E input \in TargetInputs : setTargetProfit(input)

NextGoal ==
    \/ SetTargetProfit
    \/ SetSport
    \/ SetStatus

SpecGoal == InitGoal /\ [][NextGoal]_vars

----------------------------------------------------------------------------
(* The filter and the URL query *)

\* A query: what searchParams.get returns for each parameter, absent (null)
\* or a text; the text of a date is the date, 0 for the empty text.
SportNames == {"Football", "Cricket", "Tennis", "Other"}
StatusNames == {"Pending", "Won", "Lost"}

\* The filter the hydration effect of the tracker page computes from the
\* query and the filter it holds; next has the four fields only.
hydrated(f, q) ==
    [ sport |-> IF q.sport # Null /\ q.sport[1] \in SportNames THEN q.sport[1]
                ELSE IF q.sport = Some("All") THEN "All" ELSE f.sport,
      status |-> IF q.status # Null /\ q.status[1] \in StatusNames \cup {"All"}
                 THEN q.status[1] ELSE f.status,
      from |-> IF q.from # Null /\ q.from[1] # 0 THEN q.from[1] ELSE 0,
      to |-> IF q.to # Null /\ q.to[1] # 0 THEN q.to[1] ELSE 0,
      search |-> <<>> ]

\* The same effect on the insights page, whose filter has no status.
insightsHydrated(f, q) ==
    [ sport |-> IF q.sport # Null /\ q.sport[1] \in SportNames THEN q.sport[1]
                ELSE IF q.sport = Some("All") THEN "All" ELSE f.sport,
      from |-> IF q.from # Null /\ q.from[1] # 0 THEN q.from[1] ELSE 0,
      to |-> IF q.to # Null /\ q.to[1] # 0 THEN q.to[1] ELSE 0 ]

\* "Only update if different": the filter after the hydration effect.
hydrate(f, q) ==
    LET next == hydrated(f, q)
    IN IF next.sport # f.sport \/ next.status # f.status
          \/ next.from # f.from \/ next.to # f.to
       THEN next ELSE f

\* The query router.replace leaves in the URL when the filter has changed.
writeBack(f, q) ==
    [ sport |-> IF f.sport # "All" THEN Some(f.sport) ELSE Null,
      status |-> IF f.status # "All" THEN Some(f.status) ELSE Null,
      from |-> IF f.from # 0 THEN Some(f.from) ELSE Null,
      to |-> IF f.to # 0 THEN Some(f.to) ELSE Null ]

\* The URL changes to one with the query q: the hydration effect runs and,
\* when it has changed the filter, the write-back effect replaces the URL,
\* which runs the hydration effect again.
navigate(q) ==
    /\ isClient
    /\ LET f1 == hydrate(filter, q)
       IN filter' = IF f1 # filter THEN hydrate(f1, writeBack(f1, q)) ELSE f1
    /\ UNCHANGED <<bets, lastDeleted, undoTimer, timers, isClient, store, clock, nextId, state, stateStore, crashed>>

QuerySports == {Null, Some("All"), Some("Cricket"), Some("bogus")}
QueryStatuses == {Null, Some("All"), Some("Pending"), Some("bogus")}
QueryDates == {Null, Some(0), Some(20240131)}

Queries == [sport : QuerySports, status : QueryStatuses, from : QueryDates, to : QueryDates]

Navigate == \E q \in Queries : navigate(q)

InitUrl ==
    /\ \E n \in 0..1 : \E pick \in [1..n -> ViewPool] :
          bets = [i \in 1..n |-> [pick[i] EXCEPT !.id = i]]
    /\ lastDeleted = Null
    /\ undoTimer = 0
    /\ timers = {}
    /\ isClient = TRUE
    /\ store = stringify(bets)
    /\ filter = DefaultFilter
    /\ clock = 0
    /\ nextId = Len(bets) + 1
    /\ state = DefaultState
    /\ stateStore = stringifyState(state)
    /\ crashed = FALSE

NextUrl ==
    \/ Navigate
    \/ SetSport
    \/ SetStatus
    \/ SetFrom
    \/ SetTo

SpecUrl == InitUrl /\ [][NextUrl]_vars

----------------------------------------------------------------------------
(* Vocabulary of the properties *)

Settled(b) == b.status \in {"Won", "Lost"}

\* r (thousandths) is num / den rounded to 2 decimals: a whole number of
\* pennies, nearest to the value, the one farther from zero at a tie.
IsRound2(r, num, den) ==
    /\ r % 10 = 0
    /\ 2 * Abs(r * den - num) <= 10 * den
    /\ 2 * Abs(r * den - num) = 10 * den => Abs(r * den) > Abs(num)

ReturnOf(b) == IF effectiveReturn(b) = Null THEN 0 ELSE effectiveReturn(b)[1]

\* Sums over the records of list whose index is in I.
StakeSum(list, I) == Sum([i \in 1..Len(list) |-> IF i \in I THEN list[i].stake ELSE 0])
ReturnSum(list, I) == Sum([i \in 1..Len(list) |-> IF i \in I THEN ReturnOf(list[i]) ELSE 0])
WinCount(list, I) == Cardinality({i \in I : list[i].status = "Won"})

\* The indices of the settled records of list.
SettledIn(list) == {i \in 1..Len(list) : Settled(list[i])}

Members(list) == {list[i] : i \in 1..Len(list)}

\* The sum of the profit column of a table.
ProfitSum(rows) == Sum([i \in 1..Len(rows) |-> rows[i].profit])

NonIncreasingProfit(rows) ==
    \A i, j \in 1..Len(rows) : i < j => rows[i].profit >= rows[j].profit

----------------------------------------------------------------------------
(* C1 *)

\* C1: effectiveReturn is null for every Pending record, with or without an
\* override; for a Won or Lost record with an override it is the override
\* rounded to 2 decimals, whatever stake and odds are; for a Won record
\* without override it is stake * oddsDecimal rounded to 2 decimals; for a
\* Lost record without override it is 0.
C1_EffectiveReturn ==
    \A i \in 1..Len(bets) :
       LET b == bets[i]
           r == effectiveReturn(b)
       IN /\ b.status = "Pending" => r = Null
          /\ (Settled(b) /\ b.returnOverride # Null) =>
                (r # Null /\ IsRound2(r[1], b.returnOverride[1], 1))
          /\ (b.status = "Won" /\ b.returnOverride = Null) =>
                (r # Null /\ IsRound2(r[1], b.stake * b.oddsDecimal, 10000))
          /\ (b.status = "Lost" /\ b.returnOverride = Null) => r = Some(0)

\* A Pending record that carries an override, next to a Won record whose
\* override is not a whole number of pennies and differs from stake * odds.
C1_Witness ==
    \E i, j \in 1..Len(bets) :
       /\ bets[i].status = "Pending" /\ bets[i].returnOverride # Null
       /\ bets[j].status = "Won" /\ bets[j].returnOverride # Null
       /\ bets[j].returnOverride[1] % 10 # 0
       /\ effectiveReturn(bets[j]) # Some(bets[j].returnOverride[1])
       /\ effectiveReturn(bets[j]) # defaultReturn(bets[j])

----------------------------------------------------------------------------
(* C2, C3, C4: delete, undo and the undo window *)

\* The identifiers that may have been given to a record.
AllIds == 1..(MaxTime + 2)

Held(id) == lastDeleted # Null /\ lastDeleted[1].id = id
Live(id) == id \in IdsOf(bets)

\* A step that takes a record out of the live collection.
DeleteStep == Len(bets') < Len(bets)

\* A step that puts the held record back into the live collection.
UndoStep == lastDeleted # Null /\ lastDeleted[1].id \in IdsOf(bets')

\* C2: deleting a record r and undoing before the timer fires, with no other
\* delete in between, puts back a record equal to r in every field (id,
\* createdAt, updatedAt and settledAt included) and leaves the other records
\* as they were.  Step by step: the delete moves r itself into the slot and
\* removes nothing else; the slot keeps r until a delete, an undo or the
\* timer; the undo adds the held record, field for field, and nothing else.
C2_DeleteUndoRestores ==
    [][ /\ DeleteStep =>
             /\ lastDeleted' # Null
             /\ lastDeleted'[1] \in Members(bets)
             /\ bets' = withoutBet(bets, lastDeleted'[1].id)
             /\ Len(bets') = Len(bets) - 1
        /\ (lastDeleted # Null /\ lastDeleted' # lastDeleted) =>
             \/ DeleteStep
             \/ lastDeleted' = Null
        /\ UndoStep =>
             /\ findBet(bets', lastDeleted[1].id) = lastDeleted
             /\ withoutBet(bets', lastDeleted[1].id) = bets
      ]_vars

\* A settled record, added before another one, stands in front of it: it was
\* deleted and restored by Undo, with its settlement time.
C2_Witness ==
    /\ Len(bets) >= 2
    /\ lastDeleted = Null
    /\ undoTimer # 0 /\ undoTimer \notin timers
    /\ bets[1].createdAt < bets[2].createdAt
    /\ bets[1].settledAt # Null

\* C3: one soft-deleted record is held at a time.  A delete of b while the
\* slot holds a leaves b, and not a, in the slot; an undo restores the held
\* record and no other; and a record that is neither live nor held is never
\* live or held again, whatever operations follow.
C3_SingleSlot ==
    [][ /\ (DeleteStep /\ lastDeleted # Null) =>
             /\ lastDeleted' # Null
             /\ lastDeleted' # lastDeleted
             /\ lastDeleted'[1] \in Members(bets)
             /\ lastDeleted'[1].id \notin IdsOf(bets')
        /\ UndoStep =>
             /\ Len(bets') = Len(bets) + 1
             /\ lastDeleted' = Null
        /\ \A id \in AllIds :
             (isClient /\ id < nextId /\ ~Live(id) /\ ~Held(id)) =>
                (~Live(id) /\ ~Held(id))'
      ]_vars

\* Both seeded records have been deleted one after the other: the second is
\* held, with its timer pending, and the first is neither live nor held.
C3_Witness ==
    /\ isClient
    /\ nextId = 3
    /\ bets = <<>>
    /\ lastDeleted # Null
    /\ undoTimer \in timers

\* C4: a deleted record that is not restored within the window is discarded
\* for good.  The timer's callback empties the slot; while the slot is empty
\* no step, Undo included, brings back a record that is not live; and, the
\* browser running every pending timeout, a held record is eventually either
\* live again (it was undone) or neither live nor held.
C4_WindowExpires ==
    /\ [][ /\ (timers' # timers /\ bets' = bets) => lastDeleted' = Null
           /\ (isClient /\ lastDeleted = Null) =>
                \A id \in AllIds : (id < nextId /\ ~Live(id)) => ~Live(id)'
         ]_vars
    /\ \A id \in AllIds :
          Held(id) ~> (Live(id) \/ (~Live(id) /\ ~Held(id)))

\* The only record there ever was has been deleted and its timer has fired:
\* nothing is live, nothing is held, no timeout is pending.
C4_Witness ==
    /\ isClient
    /\ nextId = 2
    /\ store.kind = "array"
    /\ bets = <<>>
    /\ lastDeleted = Null
    /\ undoTimer # 0
    /\ timers = {}

----------------------------------------------------------------------------
(* C5: the filter *)

\* The record sets the pages compute their tables over: the filtered
\* records, which are the whole collection when no filter is set.
RecordSets == {insightsBets, filteredBets}

\* a and b are the same character, or the two cases of one letter.
SameLetter(a, b) ==
    a = b \/ \E n \in 1..26 : {a, b} = {UpperCase[n], LowerCase[n]}

\* q occurs in text, the case of letters ignored.
ContainsCI(text, q) ==
    \E k \in 0..(Len(text) - Len(q)) : \A j \in 1..Len(q) : SameLetter(text[k + j], q[j])

\* description + sport + status, as the search reads them.
SearchText(b) == b.description \o <<" ">> \o Chars(b.sport) \o <<" ">> \o Chars(b.status)

Blank(q) == \A i \in 1..Len(q) : q[i] = " "

\* b matches every criterion of f that is specified; unsearched says whether
\* the search text counts as left at its default.
Matches(b, f, unsearched) ==
    /\ f.sport = "All" \/ b.sport = f.sport
    /\ f.status = "All" \/ b.status = f.status
    /\ f.from = 0 \/ b.date >= f.from
    /\ f.to = 0 \/ b.date <= f.to
    /\ unsearched \/ ContainsCI(SearchText(b), f.search)

\* The result of the ledger's filter, and of the insights page's filter on
\* sport and date range, has the records that match and no others.
FilterResultIs(unsearched) ==
    \A ledger \in {filteredBets}, insights \in {insightsBets} :
       /\ \A i \in 1..Len(bets) :
             /\ bets[i] \in Members(ledger) <=> Matches(bets[i], filter, unsearched)
             /\ bets[i] \in Members(insights) <=>
                   Matches(bets[i], [filter EXCEPT !.status = "All"], TRUE)
       /\ Members(ledger) \subseteq Members(bets)
       /\ Members(insights) \subseteq Members(bets)
       /\ Len(ledger) = Cardinality(Members(ledger))
       /\ Len(insights) = Cardinality(Members(insights))
       /\ filter = DefaultFilter =>
             /\ Members(ledger) = Members(bets)
             /\ Members(insights) = Members(bets)

\* C5 as stated: a record is in the filter result iff it matches every
\* specified criterion (sport, status, from and to inclusive, search text a
\* case-insensitive substring of description + sport + status), a criterion
\* at its default ("All", unset date, empty search) imposing no constraint.
C5_AsStated == FilterResultIs(filter.search = <<>>)

\* C5, amended: as stated, except that a search text that is empty or
\* consists of white space only imposes no constraint.
C5_FilterMembership == FilterResultIs(Blank(filter.search))

\* A search of two spaces and an upper date bound: a record dated on the
\* bound is in the result though its text has no two spaces in a row, and a
\* later record is not.
C5_Witness ==
    /\ filter.search = <<" ", " ">>
    /\ filter.to # 0
    /\ \E i, j \in 1..Len(bets) :
          /\ bets[i].date = filter.to
          /\ bets[i] \in Members(filteredBets)
          /\ ~ContainsCI(SearchText(bets[i]), filter.search)
          /\ bets[j].date > filter.to
          /\ bets[j] \notin Members(filteredBets)

----------------------------------------------------------------------------
(* C6: totals *)

\* C6: total staked sums the stake of all records; total returned sums
\* effectiveReturn over the settled records; profit is total returned minus
\* the stake of the settled records; hit rate is wins / settled count, 0 when
\* nothing is settled; ROI is profit / settled stake, 0 when the settled
\* stake is 0.
C6_Totals ==
    \A fb \in {bets, insightsBets} :
       LET S == SettledIn(fb)
           m == metrics(fb)
           t == totals(fb, 0)
           profit == ReturnSum(fb, S) - StakeSum(fb, S)
           hit == IF S = {} THEN Zero ELSE Ratio(WinCount(fb, S), Cardinality(S))
       IN /\ m.stakedAll = StakeSum(fb, 1..Len(fb))
          /\ m.returned = ReturnSum(fb, S)
          /\ m.profit = profit
          /\ RatEq(m.hitRate, hit)
          /\ RatEq(m.roi, IF StakeSum(fb, S) = 0 THEN Zero
                          ELSE Ratio(profit, StakeSum(fb, S)))
          /\ t.totalStaked = StakeSum(fb, 1..Len(fb))
          /\ t.totalReturned = ReturnSum(fb, S)
          /\ t.profit = profit
          /\ RatEq(t.winRate, hit)

----------------------------------------------------------------------------
(* C7 .. C10: the grouped tables *)

\* The profit of the records of fb with index in I.
ProfitOver(fb, I) == ReturnSum(fb, I) - StakeSum(fb, I)

C8_MonthlyRows ==
    \A fb \in RecordSets : \A rows \in {monthly(fb)} :
       LET S == SettledIn(fb)
           months == {fb[i].date \div 100 : i \in S}
       IN /\ {rows[k].month : k \in 1..Len(rows)} = months
          /\ Len(rows) = Cardinality(months)
          /\ \A k \in 1..Len(rows) :
                LET G == {i \in S : fb[i].date \div 100 = rows[k].month}
                IN /\ rows[k].staked = StakeSum(fb, G)
                   /\ rows[k].returned = ReturnSum(fb, G)
                   /\ rows[k].profit = ProfitOver(fb, G)
          /\ \A k, l \in 1..Len(rows) : k < l => rows[k].month < rows[l].month

\* Two settled records of different months, the later month first in the
\* collection: two rows, the earlier month first.
C8_Witness ==
    /\ Len(bets) = 2
    /\ Settled(bets[1]) /\ Settled(bets[2])
    /\ bets[1].date \div 100 > bets[2].date \div 100
    /\ Len(monthly(bets)) = 2
    /\ monthly(bets)[1].month = bets[2].date \div 100

\* The rows of a grouped table: one row per key that occurs among the
\* records with index in I, each accumulating the settled records of its
\* key, winRate wins / settled (0 if none), in non-increasing order of profit.
GroupRowsAre(rows, rowKey, fb, recKey, I) ==
    /\ {rowKey[k] : k \in 1..Len(rows)} = {recKey[i] : i \in I}
    /\ Len(rows) = Cardinality({recKey[i] : i \in I})
    /\ \A k \in 1..Len(rows) :
          LET G == {i \in I : recKey[i] = rowKey[k] /\ Settled(fb[i])}
          IN /\ rows[k].staked = StakeSum(fb, G)
             /\ rows[k].returned = ReturnSum(fb, G)
             /\ rows[k].profit = ProfitOver(fb, G)
             /\ RatEq(rows[k].winRate,
                      IF G = {} THEN Zero ELSE Ratio(WinCount(fb, G), Cardinality(G)))
    /\ NonIncreasingProfit(rows)

\* C9: by-sport has one row for each sport that occurs among all records (a
\* sport whose records are all Pending has an all-zero row); by-category has
\* one row per category of the Football records, "Uncategorised" for a
\* record with no category; each row accumulates staked, returned, profit
\* and wins over the settled records of its group, winRate is wins / settled
\* (0 if none), and the rows are in non-increasing order of profit.
C9_GroupRows ==
    \A fb \in RecordSets :
       \A s \in {bySport(fb)}, c \in {byCategory(fb)}, t \in {footballCategoryStats(fb)} :
          LET all == 1..Len(fb)
              football == {i \in all : fb[i].sport = "Football"}
              sportOf == Array([i \in all |-> fb[i].sport])
              categoryOf == Array([i \in all |-> IF fb[i].category = Undefined
                                                 THEN "Uncategorised" ELSE fb[i].category])
          IN /\ GroupRowsAre(s, Array([k \in 1..Len(s) |-> s[k].sport]), fb, sportOf, all)
             /\ GroupRowsAre(c, Array([k \in 1..Len(c) |-> c[k].category]), fb, categoryOf, football)
             /\ GroupRowsAre(t, Array([k \in 1..Len(t) |-> t[k].category]), fb, categoryOf, football)

\* A sport with a Pending record only, whose row is all zero and stands
\* before the row of a losing Football record that has no category.
C9_Witness ==
    /\ Len(bets) = 2
    /\ \E i, j \in 1..2 :
          /\ bets[i].status = "Pending" /\ bets[i].sport # "Football"
          /\ bets[j].sport = "Football" /\ bets[j].category = Undefined
          /\ Settled(bets[j]) /\ ProfitOver(bets, {j}) < 0
          /\ bySport(bets)[1] = [sport |-> bets[i].sport, staked |-> 0, returned |-> 0,
                                 profit |-> 0, winRate |-> Zero]
          /\ byCategory(bets)[1].category = "Uncategorised"

\* The bands of the calibration table: label, least and greatest odds in
\* ten-thousandths (0: no greatest odds).
BandTable ==
    << <<"1.01 to 1.49", 10100, 14900>>, <<"1.50 to 1.99", 15000, 19900>>,
       <<"2.00 to 2.99", 20000, 29900>>, <<"3.00 to 4.99", 30000, 49900>>,
       <<"5.00 or more", 50000, 0>> >>

InBand(odds, k) ==
    /\ odds >= BandTable[k][2]
    /\ BandTable[k][3] = 0 \/ odds <= BandTable[k][3]

\* C10: the calibration table has exactly 5 rows in the fixed order of the
\* bands, for every record set, the empty one included; a band with no
\* settled record reports bets, wins, avgOdds, implied, winRate, roi and
\* profit all 0; every row counts settled records only, so a Pending record
\* is counted in no band.
C10_OddsBands ==
    \A fb \in RecordSets \cup {<<>>} : \A rows \in {oddsBands(fb)} :
          /\ Len(rows) = 5
          /\ \A k \in 1..5 :
                LET G == {i \in SettledIn(fb) : InBand(fb[i].oddsDecimal, k)}
                IN /\ rows[k].band = BandTable[k][1]
                   /\ rows[k].bets = Cardinality(G)
                   /\ G = {} =>
                        rows[k] = [ band |-> BandTable[k][1], bets |-> 0, wins |-> 0,
                                    avgOdds |-> Zero, implied |-> Zero, winRate |-> Zero,
                                    roi |-> Zero, profit |-> 0 ]

\* A Pending record with odds inside a band whose row is all zero, next to
\* a settled record counted in another band.
C10_Witness ==
    \E i, j \in 1..Len(bets) : \E k, l \in 1..5 :
       /\ bets[i].status = "Pending" /\ InBand(bets[i].oddsDecimal, k)
       /\ oddsBands(bets)[k].bets = 0
       /\ Settled(bets[j]) /\ InBand(bets[j].oddsDecimal, l)
       /\ oddsBands(bets)[l].bets = 1

----------------------------------------------------------------------------
(* C11: the weekday table *)

\* The number of days from 1970-01-01, a Thursday, to the date yyyymmdd.
DaysFromEpoch(date) ==
    LET y0 == date \div 10000
        mo == (date \div 100) % 100
        d == date % 100
        y == IF mo <= 2 THEN y0 - 1 ELSE y0
        era == y \div 400
        yoe == y - era * 400
        doy == (153 * (IF mo > 2 THEN mo - 3 ELSE mo + 9) + 2) \div 5 + d - 1
        doe == yoe * 365 + yoe \div 4 - yoe \div 100 + doy
    IN era * 146097 + doe - 719468

WeekdayNames == <<"Sun", "Mon", "Tue", "Wed", "Thu", "Fri", "Sat">>

\* The weekday name of a date.
WeekdayOf(date) == WeekdayNames[((DaysFromEpoch(date) + 4) % 7) + 1]

\* C11: the weekday table has exactly 7 rows, one for each weekday name of
\* the Sunday-first list, for every record set; a weekday with no settled
\* record has an all-zero row; only the settled records of a weekday
\* contribute to its row; the rows are in non-increasing order of profit.
C11_WeekdayRows ==
    \A fb \in RecordSets \cup {<<>>} : \A rows \in {byWeekday(fb)} :
       /\ Len(rows) = 7
       /\ \A n \in 1..7 : \E k \in 1..7 : rows[k].day = WeekdayNames[n]
       /\ \A k \in 1..7 :
             LET G == {i \in SettledIn(fb) : WeekdayOf(fb[i].date) = rows[k].day}
             IN /\ rows[k].staked = StakeSum(fb, G)
                /\ rows[k].returned = ReturnSum(fb, G)
                /\ rows[k].profit = ProfitOver(fb, G)
                /\ RatEq(rows[k].winRate,
                         IF G = {} THEN Zero ELSE Ratio(WinCount(fb, G), Cardinality(G)))
                /\ G = {} => rows[k] = [ day |-> rows[k].day, staked |-> 0, returned |-> 0,
                                         profit |-> 0, winRate |-> Zero, roi |-> Zero ]
       /\ NonIncreasingProfit(rows)

\* A losing record and a Pending record of the same Thursday: six all-zero
\* rows from Sunday on, then the Thursday row with the loss alone.
C11_Witness ==
    /\ Len(bets) = 2
    /\ filter = DefaultFilter
    /\ \E i, j \in 1..2 :
          /\ bets[i].status = "Pending" /\ bets[i].stake > 0
          /\ Settled(bets[j]) /\ bets[i].date = bets[j].date
          /\ ProfitOver(bets, {j}) < 0
          /\ byWeekday(bets)[7].day = "Thu"
          /\ byWeekday(bets)[7].profit = ProfitOver(bets, {j})
    /\ byWeekday(bets)[1].day = "Sun"
    /\ byWeekday(bets)[1].profit = 0

----------------------------------------------------------------------------
(* C12: the cumulative profit series *)

\* C12: when at least one record is settled the series has one point more
\* than there are settled records, its first point has value 0 and the date
\* of the earliest settled record, the dates of its points are
\* non-decreasing and its last value is the profit that totals reports;
\* when no record is settled the series is empty.
C12_Cumulative ==
    \A series \in {cumulative(bets)} :
       LET S == SettledIn(bets)
       IN IF S = {} THEN series = <<>>
          ELSE /\ Len(series) = Cardinality(S) + 1
               /\ series[1].value = 0
               /\ \A i \in S : series[1].date <= bets[i].date
               /\ \E i \in S : series[1].date = bets[i].date
               /\ \A k, l \in 1..Len(series) : k < l => series[k].date <= series[l].date
               /\ series[Len(series)].value = totals(bets, 0).profit
               /\ series[Len(series)].value = ProfitOver(bets, S)

\* Two settled records, the later one first in the collection, that made a
\* profit or a loss together: three points, the first on the earlier date.
C12_Witness ==
    /\ Len(bets) = 2
    /\ Settled(bets[1]) /\ Settled(bets[2])
    /\ bets[1].date > bets[2].date
    /\ Len(cumulative(bets)) = 3
    /\ cumulative(bets)[1] = [date |-> bets[2].date, value |-> 0]
    /\ cumulative(bets)[3].value # 0
    /\ cumulative(bets)[3].value # cumulative(bets)[2].value

----------------------------------------------------------------------------
(* C13: goal progress *)

\* C13: goal progress is profit / targetProfit clamped to [0, 1] when
\* targetProfit > 0 and 0 otherwise: it always lies in [0, 1], is 1 whenever
\* profit >= targetProfit > 0 and 0 whenever profit <= 0; the profit is that
\* of all settled records of the collection, whatever the view filter is.
C13_GoalProgress ==
    \A progress \in {trackerTotals.progress} :
       LET target == state.targetProfit
           profit == ProfitOver(bets, SettledIn(bets))
       IN /\ progress[2] # 0
          /\ progress[1] * progress[2] >= 0
          /\ Abs(progress[1]) <= Abs(progress[2])
          /\ target <= 0 => RatEq(progress, Zero)
          /\ (target > 0 /\ profit <= 0) => RatEq(progress, Zero)
          /\ (target > 0 /\ profit >= target) => RatEq(progress, Ratio(1, 1))
          /\ (target > 0 /\ 0 < profit /\ profit < target) =>
                RatEq(progress, Ratio(profit, target))

\* The profit is above a positive target, so progress is 1, while the view
\* filter hides a settled record.
C13_Witness ==
    /\ state.targetProfit > 0
    /\ ProfitOver(bets, SettledIn(bets)) > state.targetProfit
    /\ trackerTotals.progress = Ratio(1, 1)
    /\ \E i \in SettledIn(bets) : bets[i] \notin Members(filteredBets)

----------------------------------------------------------------------------
(* C14: the median *)

\* The k-th smallest element of nums.
KthSmallest(nums, k) ==
    CHOOSE v \in {nums[i] : i \in 1..Len(nums)} :
       /\ Cardinality({i \in 1..Len(nums) : nums[i] < v}) < k
       /\ Cardinality({i \in 1..Len(nums) : nums[i] <= v}) >= k

\* C14: median returns 0 for an empty list, the middle element of the
\* numerically sorted list for an odd count and the average of the two
\* middle elements for an even count, so that [5, 10, 5, 20] gives 7.5; it
\* leaves the order of its input list as it was.
C14_Median ==
    /\ RatEq(median(<<5000, 10000, 5000, 20000>>), Ratio(7500, 1))
    /\ \A nums \in {Stakes(bets), Stakes(insightsBets)} : \A m \in {median(nums)} :
          LET n == Len(nums)
          IN /\ m[2] # 0
             /\ n = 0 => RatEq(m, Zero)
             /\ n % 2 = 1 => RatEq(m, Ratio(KthSmallest(nums, (n + 1) \div 2), 1))
             /\ (n > 0 /\ n % 2 = 0) =>
                   RatEq(m, Ratio(KthSmallest(nums, n \div 2)
                                  + KthSmallest(nums, (n \div 2) + 1), 2))
             /\ afterMedian(nums) = nums
    /\ \A m \in {median(Stakes(insightsBets))} :
          IsRound2(metrics(insightsBets).medStake, m[1], m[2])

\* The stakes 5, 10, 5, 20 in this order, with median 7.5, and, under a
\* sport filter, the stakes 10, 20 with median 15.
C14_Witness ==
    /\ Stakes(bets) = <<5000, 10000, 5000, 20000>>
    /\ RatEq(median(Stakes(bets)), Ratio(7500, 1))
    /\ Stakes(insightsBets) = <<10000, 20000>>
    /\ metrics(insightsBets).medStake = 15000

----------------------------------------------------------------------------
(* C15: the CSV export *)

\* The pieces of text t between the occurrences of the character sep.
Split(t, sep) ==
    LET cuts == {i \in 1..Len(t) : t[i] = sep}
        n == Cardinality(cuts)
        pos == Array([k \in 1..n |-> CHOOSE i \in cuts : Cardinality({j \in cuts : j < i}) = k - 1])
        at(k) == IF k = 0 THEN 0 ELSE IF k = n + 1 THEN Len(t) + 1 ELSE pos[k]
    IN Array([k \in 1..(n + 1) |-> SubSeq(t, at(k - 1) + 1, at(k) - 1)])

\* C15: the CSV export is one header row followed by exactly one row per
\* record of the exported set, in its order; each row has exactly 9
\* comma-separated fields in the column order date, description, sport,
\* category, stake, oddsDecimal, status, return, profit; the return field is
\* blank iff the record is Pending; the profit field is blank iff the record
\* is Pending and is otherwise effectiveReturn minus stake (with 2 decimals);
\* the category field is blank iff the sport is not Football.
C15_CsvExport ==
    \A list \in {insightsBets, bets} : \A lines \in {Split(exportCSV(list), "\n")} :
       /\ Len(lines) = Len(list) + 1
       /\ Split(lines[1], ",") = header
       /\ \A i \in 1..Len(list) : \A fields \in {Split(lines[i + 1], ",")} :
             LET b == list[i]
             IN /\ Len(fields) = 9
                /\ fields[1] = dateText(b.date)
                /\ Len(fields[2]) = Len(b.description)
                /\ fields[3] = Chars(b.sport)
                /\ fields[4] = <<>> <=> b.sport # "Football"
                /\ fields[5] = toFixedText(b.stake, 10)
                /\ fields[6] = toFixedText(b.oddsDecimal, 100)
                /\ fields[7] = Chars(b.status)
                /\ fields[8] = <<>> <=> b.status = "Pending"
                /\ fields[9] = <<>> <=> b.status = "Pending"
                /\ b.status # "Pending" =>
                      fields[9] = toFixedText(ReturnOf(b) - b.stake, 10)

\* A Pending record whose description holds a comma and a settled Football
\* record without category, under a filter that keeps the first only: the
\* export of the filtered set has 2 lines, that of the collection 3.
C15_Witness ==
    /\ Len(bets) = 2
    /\ Len(insightsBets) = 1
    /\ Len(Split(exportCSV(insightsBets), "\n")) = 2
    /\ Len(Split(exportCSV(bets), "\n")) = 3
    /\ insightsBets[1].status = "Pending"
    /\ \E k \in 1..Len(insightsBets[1].description) : insightsBets[1].description[k] = ","
    /\ \E j \in 1..2 :
          /\ bets[j].sport = "Football"
          /\ bets[j].category = Undefined
          /\ bets[j].status = "Lost"
          /\ Split(csvRow(bets[j]), ",")[9] = <<"-", "1", ".", "0", "0">>

----------------------------------------------------------------------------
(* C16, C17: the constraints on stake and odds *)

\* The creation constraints on what was typed: a non-blank description, a
\* stake above 0 and odds above 1.
MeetsConstraints(form) ==
    /\ ~Blank(form.description)
    /\ form.stake.kind = "number" /\ form.stake.value > 0
    /\ form.oddsDecimal.kind = "number" /\ form.oddsDecimal.value > 10000

\* C16: addBet creates a record only when the form meets the creation
\* constraints and otherwise leaves the collection unchanged; every record it
\* creates is put in front of the collection and has a non-empty description,
\* a stored stake > 0 and a stored oddsDecimal > 1.0, the stored values being
\* the inputs rounded to 2 and 3 decimals.
C16_AddBet ==
    [][\A form \in Forms : addBet(form) =>
          IF ~MeetsConstraints(form) THEN bets' = bets
          ELSE /\ Len(bets') = Len(bets) + 1
               /\ SubSeq(bets', 2, Len(bets')) = bets
               /\ bets'[1].description # <<>>
               /\ IsRound2(bets'[1].stake, form.stake.value, 1)
               /\ IsRound2(bets'[1].oddsDecimal, form.oddsDecimal.value, 1)
               /\ bets'[1].stake > 0
               /\ bets'[1].oddsDecimal > 10000]_vars

\* C17: in every state reachable through addBet, saveEdit, deleteBet,
\* undoDelete and the expiry of the timer from a collection that satisfies
\* the data model, every record of the live collection has oddsDecimal > 1.0
\* and stake >= 0.
C17_LiveRecordsValid ==
    \A i \in 1..Len(bets) : bets[i].oddsDecimal > 10000 /\ bets[i].stake >= 0

----------------------------------------------------------------------------
(* C18: loading the persisted data *)

NoUsableValue(raw) == raw.kind \in {"absent", "malformed"}

\* C18: loading the persisted data never fails and never reaches an error
\* state; when a key is absent or its JSON is malformed, the in-memory value
\* that corresponds to it (app state or record collection) is the default
\* (for the collection of the tracker page: the two first-run examples when
\* the key is absent, the empty collection when it is malformed), on the
\* tracker page and on the insights page.
C18_LoadNeverFails ==
    [][~isClient =>
          /\ ~crashed'
          /\ (isClient' /\ NoUsableValue(stateStore)) => state' = DefaultState
          /\ (isClient' /\ store.kind = "malformed") => bets' = <<>>
          /\ (isClient' /\ store.kind = "absent") =>
                \E today \in FormDates : bets' = seedBets(nextId, today, clock)
          /\ \A page \in {insightsLoad(stateStore, store)} :
                /\ ~page.crashed
                /\ NoUsableValue(stateStore) => page.state = insightsDefaultState
                /\ NoUsableValue(store) => page.bets = <<>>]_vars

----------------------------------------------------------------------------
(* C19, C20: what Save and Add do to a record *)

\* C19: a saveEdit that changes a Pending record to Won or Lost sets its
\* settledAt to the time of the edit; an addBet with status Won or Lost sets
\* settledAt at creation (to the creation time), and an addBet with status
\* Pending leaves it absent.
C19_SettledAt ==
    [][/\ \A i \in 1..Len(bets) : \A e \in EditValues(bets[i]) :
             (saveEdit(bets[i].id, e) /\ bets[i].status = "Pending" /\ isSettled(e.status)) =>
                /\ bets'[i].status = e.status
                /\ bets'[i].settledAt = Some(clock')
       /\ \A form \in Forms :
             (addBet(form) /\ Len(bets') = Len(bets) + 1) =>
                /\ bets'[1].status = form.status
                /\ bets'[1].createdAt = clock'
                /\ bets'[1].settledAt = IF form.status = "Pending" THEN Null ELSE Some(clock')]_vars

\* The stored Pending record, saved as Won at instant 1, and in front of it a
\* record created as Lost at instant 2.
C19_Witness ==
    /\ Len(bets) = 2
    /\ bets[2].description = <<"s">>
    /\ bets[2].status = "Won"
    /\ bets[2].createdAt = 0
    /\ bets[2].settledAt = Some(1)
    /\ bets[1].status = "Lost"
    /\ bets[1].createdAt = 2
    /\ bets[1].settledAt = Some(2)

\* Ids no record of the collection has: one never given, the next one to be
\* given, and the one of the deleted record held for undo.
StaleIds == {0, nextId} \cup {lastDeleted[k].id : k \in 1..Len(lastDeleted)}

\* C20: saveEdit(id) changes only the record with that id: its id, createdAt,
\* date, description and sport are unchanged and its updatedAt becomes the
\* time of the edit, so that updatedAt >= createdAt; every other record is
\* unchanged and the collection keeps its length and order; with an id that
\* is not in the collection the update changes nothing in the collection.
C20_SaveEditFrame ==
    [][/\ \A i \in 1..Len(bets) : \A e \in EditValues(bets[i]) :
             saveEdit(bets[i].id, e) =>
                /\ Len(bets') = Len(bets)
                /\ \A j \in 1..Len(bets) : j # i => bets'[j] = bets[j]
                /\ bets'[i].id = bets[i].id
                /\ bets'[i].createdAt = bets[i].createdAt
                /\ bets'[i].date = bets[i].date
                /\ bets'[i].description = bets[i].description
                /\ bets'[i].sport = bets[i].sport
                /\ bets'[i].updatedAt = clock'
                /\ bets'[i].updatedAt >= bets'[i].createdAt
       /\ \A id \in StaleIds : \A i \in 1..Len(bets) : \A e \in EditValues(bets[i]) :
             /\ id \notin IdsOf(bets)
             /\ mapEdited(bets, id, e, clock + 1) = bets]_vars

\* A record added at instant 1 in front of the stored one, and the stored one
\* saved at instant 2 with another stake: it is still the second.
C20_Witness ==
    /\ Len(bets) = 2
    /\ bets[1].createdAt = 1
    /\ bets[1].updatedAt = 1
    /\ bets[2].description = <<"s">>
    /\ bets[2].createdAt = 0
    /\ bets[2].updatedAt = 2
    /\ bets[2].stake = -5000

----------------------------------------------------------------------------
(* C21: the derivations leave their input alone *)

----------------------------------------------------------------------------
(* C22: the order within a date in the cumulative series *)

\* The place of the settled record i of list in the series: after the
\* settled records of an earlier date and after those of its own date that
\* come before it in list.
PlaceInSeries(list, i) ==
    Cardinality({j \in SettledIn(list) :
                    \/ list[j].date < list[i].date
                    \/ list[j].date = list[i].date /\ j <= i})

\* C22: in the cumulative profit series the settled records that share a
\* date are accumulated in the relative order they have in the collection:
\* the point of a settled record comes after the points of the settled
\* records of an earlier date and of those of its date that precede it in the
\* collection, and its value is the profit of all of these and itself.
C22_StableWithinDate ==
    \A series \in {cumulative(bets)} :
       \A i \in SettledIn(bets) :
          LET k == PlaceInSeries(bets, i)
              upTo == {j \in SettledIn(bets) : PlaceInSeries(bets, j) <= k}
          IN /\ k + 1 <= Len(series)
             /\ series[k + 1].date = bets[i].date
             /\ IsRound2(series[k + 1].value, ProfitOver(bets, upTo), 1)

\* Two settled records of one date with different profits: the value after
\* the first point is the profit of the first record of the collection.
C22_Witness ==
    /\ Len(bets) = 2
    /\ Settled(bets[1]) /\ Settled(bets[2])
    /\ bets[1].date = bets[2].date
    /\ ProfitOver(bets, {1}) = 1000
    /\ ProfitOver(bets, {2}) = 2650
    /\ cumulative(bets)[2].value = 1000
    /\ cumulative(bets)[3].value = 3650

----------------------------------------------------------------------------
(* C23: hydration of the filter from the URL query *)

\* C23: when the filter is hydrated from the URL query, a dimension whose
\* parameter is absent becomes unconstrained, whatever the filter held
\* before: absent sport gives sport All, absent status gives status All,
\* absent from and to give no date bound; on the tracker page and, for sport
\* and the dates, on the insights page.
C23_AbsentMeansAll ==
    [][\A q \in Queries : navigate(q) =>
          /\ q.sport = Null =>
                filter'.sport = "All" /\ insightsHydrated(filter, q).sport = "All"
          /\ q.status = Null => filter'.status = "All"
          /\ q.from = Null =>
                filter'.from = 0 /\ insightsHydrated(filter, q).from = 0
          /\ q.to = Null =>
                filter'.to = 0 /\ insightsHydrated(filter, q).to = 0]_vars

----------------------------------------------------------------------------
(* C24: identifiers *)

\* C24: after any sequence of addBet, saveEdit, deleteBet, undoDelete and
\* timer expiry the ids of the records of the live collection are pairwise
\* distinct, and whenever the lastDeleted slot is occupied the id it holds is
\* not the id of a live record.
C24_DistinctIds ==
    /\ \A i, j \in 1..Len(bets) : i # j => bets[i].id # bets[j].id
    /\ lastDeleted # Null => lastDeleted[1].id \notin IdsOf(bets)

\* Three records were given an id; two of them are live, one of which was
\* saved, and the third is held in the slot.
C24_Witness ==
    /\ nextId = 4
    /\ Len(bets) = 2
    /\ lastDeleted # Null
    /\ \E i \in 1..2 : bets[i].updatedAt > bets[i].createdAt

----------------------------------------------------------------------------
(* C27: the timers of the undo window *)

\* C27: a timer started by an earlier delete never clears the slot of a
\* later delete.  Each deleteBet cancels the pending timer before it starts
\* its own and undoDelete cancels the pending timer, so the only timer that
\* can be pending is the one the last delete started; and the slot a delete
\* filled is emptied only by undoDelete, by a later deleteBet (which fills it
\* again) or by that timer.
C27_OwnTimerOnly ==
    [][ /\ timers \subseteq {undoTimer}
        /\ DeleteStep =>
              /\ undoTimer' \notin cleared(timers, undoTimer, isClient)
              /\ timers' = {undoTimer'}
              /\ lastDeleted' # Null
        /\ ~DeleteStep => timers' \subseteq timers
        /\ (lastDeleted # Null /\ lastDeleted' # lastDeleted) =>
              \/ DeleteStep /\ lastDeleted' # Null
              \/ UndoStep /\ lastDeleted' = Null /\ timers' = {}
              \/ /\ lastDeleted' = Null
                 /\ bets' = bets
                 /\ timers = {undoTimer}
                 /\ timers' = {}
      ]_vars

\* Both seeded records were deleted one after the other, the second within
\* the window of the first: one timer is pending, the one of the second
\* delete, and the slot holds the second record.
C27_Witness ==
    /\ isClient
    /\ nextId = 3
    /\ Len(bets) = 0
    /\ lastDeleted # Null
    /\ timers = {undoTimer}
    /\ Cardinality(timers) = 1

----------------------------------------------------------------------------
(* C25: settledAt and the status *)

\* C25: after any sequence of addBet and saveEdit a record has settledAt
\* present iff its status is Won or Lost; in particular a record edited from
\* Won or Lost back to Pending has no settledAt, and a record whose status
\* stays Pending across an edit has no settledAt.
C25_SettledAtIffSettled ==
    \A i \in 1..Len(bets) : bets[i].settledAt # Null <=> Settled(bets[i])

----------------------------------------------------------------------------
(* C26: the odds bands as a partition *)

\* Odds that addBet and saveEdit can store under the constraint odds > 1: a
\* value above 1 with 3 decimals.
StorableOdds(o) == o > 10000 /\ o % 10 = 0

\* C26: the odds bands partition the settled records.  For every record set
\* whose odds are storable, each settled record is counted in exactly one
\* band, the bet counts of the five bands sum to the number of settled
\* records and their profits sum to the settled profit.
C26_BandsPartition ==
    \A fb \in RecordSets : \A rows \in {oddsBands(fb)} :
       (\A i \in 1..Len(fb) : StorableOdds(fb[i].oddsDecimal)) =>
          /\ \A i \in SettledIn(fb) :
                Cardinality({k \in 1..Len(bands) :
                                /\ fb[i].oddsDecimal >= bands[k].min
                                /\ fb[i].oddsDecimal <= bands[k].max}) = 1
          /\ Sum([k \in 1..Len(rows) |-> rows[k].bets]) = Cardinality(SettledIn(fb))
          /\ ProfitSum(rows) = ProfitOver(fb, SettledIn(fb))

----------------------------------------------------------------------------
(* C28: where Undo puts the record *)

\* list without its element at index i.
Without(list, i) == SubSeq(list, 1, i - 1) \o SubSeq(list, i + 1, Len(list))

\* C28: undoDelete inserts the restored record at the head of the
\* collection, as addBet does for a new record.  A delete takes the record
\* out of its place and leaves the others in their order; the undo that
\* follows puts it at index 0 in front of the others, whose order is
\* unchanged, so that the collection has the members and the length it had
\* before the delete; an addBet puts the new record at index 0 too; and
\* undoDelete with an empty slot changes nothing.
C28_UndoAtHead ==
    [][ /\ DeleteStep =>
              \E i \in 1..Len(bets) :
                 /\ lastDeleted' = Some(bets[i])
                 /\ bets' = Without(bets, i)
        /\ UndoStep =>
              /\ bets'[1] = lastDeleted[1]
              /\ Tail(bets') = bets
              /\ Len(bets') = Len(bets) + 1
              /\ Members(bets') = Members(bets) \cup {lastDeleted[1]}
        /\ \A form \in Forms : (addBet(form) /\ Len(bets') > Len(bets)) =>
              /\ bets'[1].id = nextId
              /\ Tail(bets') = bets
        /\ (isClient /\ lastDeleted = Null) => ~ENABLED (undoDelete /\ vars' # vars)
      ]_vars

\* The record added last, once at the head, stands behind the one that was
\* deleted and restored by Undo: the restored record is at index 0, the slot
\* is empty and its timer was cancelled.
C28_Witness ==
    /\ Len(bets) = 3
    /\ lastDeleted = Null
    /\ undoTimer # 0 /\ timers = {}
    /\ bets[1].id < bets[2].id
    /\ bets[2].id = nextId - 1

----------------------------------------------------------------------------
(* C29: the persisted collection *)

\* C29: once client initialisation has completed, after the initial load and
\* after every add, edit, delete and undo, the record array persisted under
\* the records key equals the live collection; so a soft-deleted record is
\* absent from storage during its undo window, and a malformed stored array
\* is overwritten by the empty collection after the load.
C29_StoreIsCollection ==
    [][ /\ isClient' => store' = [kind |-> "array", value |-> bets']
        /\ (isClient' /\ lastDeleted' # Null) =>
              \A k \in 1..Len(store'.value) : store'.value[k].id # lastDeleted'[1].id
        /\ (~isClient /\ isClient' /\ store.kind = "malformed") =>
              store' = [kind |-> "array", value |-> <<>>]
      ]_vars

\* The page was opened on a malformed stored array; of the two records added
\* since, one is held in the slot and the other is the only one in storage.
C29_Witness ==
    /\ isClient
    /\ nextId = 3
    /\ lastDeleted # Null
    /\ lastDeleted[1].createdAt >= 1
    /\ Len(store.value) = 1
    /\ store.value = bets
    /\ store.value[1].createdAt >= 1

----------------------------------------------------------------------------
(* C30: the two keys are loaded independently *)

\* C30: loading the record array is independent of loading the app state, on
\* both pages: when the stored app state is malformed and the stored record
\* array is valid JSON, the records are loaded into memory and the app state
\* keeps its default, on the tracker page and on the insights page alike.
C30_IndependentLoad ==
    [][(~isClient /\ stateStore.kind = "malformed" /\ store.kind = "array") =>
          /\ bets' = store.value
          /\ state' = DefaultState
          /\ insightsLoad(stateStore, store).bets = store.value
          /\ insightsLoad(stateStore, store).state = insightsDefaultState]_vars

====
